---------------------------- MODULE Spec2Model ----------------------------
(***************************************************************************)
(* A model of main.py: the resolution of a place name and of coordinates   *)
(* from Google Maps links.  Text is modelled character by character: a     *)
(* string is a sequence of one-character strings, so that the regular      *)
(* expressions, the URL parsing, the sanitizer and the road-name heuristic *)
(* are computed as the code computes them.  Characters outside ASCII are   *)
(* written as named atoms ("c_cedilla", "i_acute", "TRADE", "REG", "COPY", *)
(* "NBSP", "ZWSP").  A comment above a line spells the texts the line      *)
(* holds.  An intermediate value is passed on as the parameter of the next *)
(* operator.  urlparse is modelled for URLs without ";", without non-ASCII *)
(* hosts and without blanks or control characters.                         *)
(***************************************************************************)
EXTENDS Integers, Sequences, FiniteSets, TLC

(***************************************************************************)
(* Python values.  None (for a str) is a sequence no text can equal; an    *)
(* Optional[float] is <<>> (None) or <<v>>, v the value in hundredths.     *)
(***************************************************************************)
None == <<"<None>">>
NoneF == <<>>
Truthy(s) == s # None /\ s # <<>>
Or(a, b) == IF Truthy(a) THEN a ELSE b

Min(S) == CHOOSE x \in S : \A y \in S : x <= y
Max(S) == CHOOSE x \in S : \A y \in S : x >= y

(***************************************************************************)
(* Character classes and str methods.                                      *)
(***************************************************************************)
\* '0123456789'
DigitSeq == <<"0","1","2","3","4","5","6","7","8","9">>
\* 'ABCDEFGHIJKLMNOPQRSTUVWXYZ'
UpperSeq == <<"A","B","C","D","E","F","G","H","I","J","K","L","M","N","O","P","Q","R","S","T","U","V","W","X","Y","Z">>
\* 'abcdefghijklmnopqrstuvwxyz'
LowerSeq == <<"a","b","c","d","e","f","g","h","i","j","k","l","m","n","o","p","q","r","s","t","u","v","w","x","y","z">>
Range(s) == {s[i] : i \in 1..Len(s)}
Digits == Range(DigitSeq)
Uppers == Range(UpperSeq)
Letters == Range(UpperSeq) \cup Range(LowerSeq)
DigitMap == [c \in Digits |-> (CHOOSE i \in 1..Len(DigitSeq) : DigitSeq[i] = c) - 1]
LowerMap == [c \in Uppers |-> LowerSeq[CHOOSE i \in 1..Len(UpperSeq) : UpperSeq[i] = c]]
IsDigit(c) == c \in Digits
IsAlpha(c) == c \in Letters
IsSpace(c) == c \in {" ", "\t", "\n", "\r", "NBSP"}
\* unicodedata.category(ch) in {"Cc", "Cf", "Cs"}
IsControl(c) == c \in {"\t", "\n", "\r", "ZWSP"}
LowerChar(c) == IF c \in Uppers THEN LowerMap[c] ELSE c
Lower(s) == [i \in 1..Len(s) |-> LowerChar(s[i])]
NonSpace(s) == {i \in 1..Len(s) : ~IsSpace(s[i])}
Strip(s) == IF NonSpace(s) = {} THEN <<>> ELSE SubSeq(s, Min(NonSpace(s)), Max(NonSpace(s)))
Contains(s, k) == \E i \in 1..(Len(s) - Len(k) + 1) : SubSeq(s, i, i + Len(k) - 1) = k
StartsWith(s, p) == Len(p) <= Len(s) /\ SubSeq(s, 1, Len(p)) = p
EndsWith(s, p) == Len(p) <= Len(s) /\ SubSeq(s, Len(s) - Len(p) + 1, Len(s)) = p
\* the first index >= from of s holding one of the characters cs, or 0
FindAny(s, cs, from) ==
    IF \E i \in from..Len(s) : s[i] \in cs THEN Min({i \in from..Len(s) : s[i] \in cs}) ELSE 0
\* the last index of s holding c, or 0
RFind(s, c) == IF \E i \in 1..Len(s) : s[i] = c THEN Max({i \in 1..Len(s) : s[i] = c}) ELSE 0
\* s up to the first of the characters cs, and s after it (all of s, and nothing, without one)
Before(s, cs) == IF FindAny(s, cs, 1) = 0 THEN s ELSE SubSeq(s, 1, FindAny(s, cs, 1) - 1)
After(s, cs) == IF FindAny(s, cs, 1) = 0 THEN <<>> ELSE SubSeq(s, FindAny(s, cs, 1) + 1, Len(s))
ReplaceChar(s, c, d) == [i \in 1..Len(s) |-> IF s[i] = c THEN d ELSE s[i]]
RemoveChars(s, cs) == SelectSeq(s, LAMBDA c : c \notin cs)
RECURSIVE Split(_, _)
\* s.split(sep), sep one character
Split(s, sep) ==
    IF FindAny(s, {sep}, 1) = 0 THEN <<s>>
    ELSE <<Before(s, {sep})>> \o Split(After(s, {sep}), sep)
RECURSIVE Flatten(_)
Flatten(ss) == IF ss = <<>> THEN <<>> ELSE Head(ss) \o Flatten(Tail(ss))

\* unicodedata.normalize("NFKC", s) on the characters of the model
NFKCChar(c) == IF c = "TRADE" THEN <<"T","M">> ELSE IF c = "NBSP" THEN <<" ">> ELSE <<c>>
NFKC(s) == Flatten([i \in 1..Len(s) |-> NFKCChar(s[i])])
\* the index after the \s* that starts at i
SpacesEnd(s, i) == Min({j \in i..Len(s) : ~IsSpace(s[j])} \cup {Len(s) + 1})
RECURSIVE CollapseSpaces(_)
\* re.sub(r"\s{2,}", " ", s)
CollapseSpaces(s) ==
    IF s = <<>> THEN <<>>
    ELSE IF IsSpace(s[1]) /\ Len(s) >= 2 /\ IsSpace(s[2])
         THEN <<" ">> \o CollapseSpaces(SubSeq(s, SpacesEnd(s, 1), Len(s)))
         ELSE <<s[1]>> \o CollapseSpaces(Tail(s))

(***************************************************************************)
(* float(text) for text matching -?\d+(\.\d+)?: the value in hundredths    *)
(* (the digits after the second decimal place are dropped; the inputs of   *)
(* the model have at most two).                                            *)
(***************************************************************************)
RECURSIVE DigitsValue(_)
DigitsValue(ds) ==
    IF ds = <<>> THEN 0 ELSE 10 * DigitsValue(SubSeq(ds, 1, Len(ds) - 1)) + DigitMap[ds[Len(ds)]]
FloatAbs(u) ==
    100 * DigitsValue(Before(u, {"."})) + DigitsValue(SubSeq(After(u, {"."}) \o <<"0","0">>, 1, 2))
Float(t) == IF t[1] = "-" THEN 0 - FloatAbs(Tail(t)) ELSE FloatAbs(t)

(***************************************************************************)
(* The regular expressions.  NumEnd(s, i) is the index after the           *)
(* -?\d+(?:\.\d+)? that starts at i, or 0 when none does.  The groups are  *)
(* greedy, and no shorter match of the first one can be followed by the    *)
(* comma, so that the match at an index is decided without backtracking.   *)
(***************************************************************************)
\* the index after the \d* that starts at i
DigitsEnd(s, i) == Min({j \in i..Len(s) : ~IsDigit(s[j])} \cup {Len(s) + 1})
\* the index after the -? that starts at i
SignEnd(s, i) == IF i <= Len(s) /\ s[i] = "-" THEN i + 1 ELSE i
\* the index after the (?:\.\d+)? that starts at k
FracEnd(s, k) ==
    IF k <= Len(s) /\ s[k] = "." /\ DigitsEnd(s, k + 1) > k + 1 THEN DigitsEnd(s, k + 1) ELSE k
NumEnd(s, i) ==
    IF DigitsEnd(s, SignEnd(s, i)) = SignEnd(s, i) THEN 0
    ELSE FracEnd(s, DigitsEnd(s, SignEnd(s, i)))
\* where group 2 of (-?\d+(?:\.\d+)?),\s*(-?\d+(?:\.\d+)?) starts, for a group 1 at index i
Group2(s, i) == SpacesEnd(s, NumEnd(s, i) + 1)
\* whether (-?\d+(?:\.\d+)?),\s*(-?\d+(?:\.\d+)?) matches at index i
PairMatches(s, i) ==
    /\ NumEnd(s, i) # 0 /\ NumEnd(s, i) <= Len(s) /\ s[NumEnd(s, i)] = ","
    /\ NumEnd(s, Group2(s, i)) # 0
\* the match at index i: <<group 1, group 2>>
PairAt(s, i) ==
    <<SubSeq(s, i, NumEnd(s, i) - 1), SubSeq(s, Group2(s, i), NumEnd(s, Group2(s, i)) - 1)>>
\* re.search(r"(-?\d+(?:\.\d+)?),\s*(-?\d+(?:\.\d+)?)", s): the leftmost match, or <<>>
SearchPair(s) ==
    IF \E i \in 1..Len(s) : PairMatches(s, i)
    THEN PairAt(s, Min({i \in 1..Len(s) : PairMatches(s, i)}))
    ELSE <<>>
\* re.match(r"-?\d+(\.\d+)?,\s*-?\d+(\.\d+)?", s): a match at the start of s
MatchPair(s) == PairMatches(s, 1)
ArrobaAt(s, i) == s[i] = "@" /\ PairMatches(s, i + 1)
\* PADRAO_LATLON_ARROBA.search(s): <<group 1, group 2>> of the leftmost match, or <<>>
PADRAO_LATLON_ARROBA(s) ==
    IF \E i \in 1..Len(s) : ArrobaAt(s, i)
    THEN PairAt(s, Min({i \in 1..Len(s) : ArrobaAt(s, i)}) + 1)
    ELSE <<>>
TagAt(s, tag, i) ==
    i + Len(tag) - 1 <= Len(s) /\ SubSeq(s, i, i + Len(tag) - 1) = tag /\ NumEnd(s, i + Len(tag)) # 0
\* the number after the tag at index i
TaggedNumber(s, tag, i) == SubSeq(s, i + Len(tag), NumEnd(s, i + Len(tag)) - 1)
\* re.compile(tag + r"(-?\d+(?:\.\d+)?)").search(s): <<group 1>> of the leftmost match, or <<>>
SearchTagged(s, tag) ==
    IF \E i \in 1..Len(s) : TagAt(s, tag, i)
    THEN <<TaggedNumber(s, tag, Min({i \in 1..Len(s) : TagAt(s, tag, i)}))>>
    ELSE <<>>
\* '!3d'
PADRAO_LAT_3D(s) == SearchTagged(s, <<"!","3","d">>)
\* '!4d'
PADRAO_LON_4D(s) == SearchTagged(s, <<"!","4","d">>)

(***************************************************************************)
(* urllib.parse.  Percent-decoding knows the octets of PercentTable, the   *)
(* ones the inputs of the model use; another %xx stays as written.         *)
(***************************************************************************)
PercentTable ==
    <<<<<<"2","0">>, " ">>, <<<<"2","C">>, ",">>, <<<<"2","c">>, ",">>, <<<<"4","0">>, "@">>, <<<<"2","F">>, "/">>,
      <<<<"2","B">>, "+">>, <<<<"0","9">>, "\t">>>>
IsPercent(s) ==
    s[1] = "%" /\ Len(s) >= 3 /\ \E k \in 1..Len(PercentTable) : PercentTable[k][1] = SubSeq(s, 2, 3)
PercentChar(code) == PercentTable[CHOOSE k \in 1..Len(PercentTable) : PercentTable[k][1] = code][2]
RECURSIVE unquote(_)
unquote(s) ==
    IF s = <<>> THEN <<>>
    ELSE IF IsPercent(s) THEN <<PercentChar(SubSeq(s, 2, 3))>> \o unquote(SubSeq(s, 4, Len(s)))
    ELSE <<s[1]>> \o unquote(Tail(s))

\* urlsplit: the index of the ":" that ends the scheme, or 0 without a scheme
SchemeEnd(url) ==
    IF /\ FindAny(url, {":"}, 1) > 1 /\ IsAlpha(url[1])
       /\ \A j \in 1..(FindAny(url, {":"}, 1) - 1) :
              IsAlpha(url[j]) \/ IsDigit(url[j]) \/ url[j] \in {"+", "-", "."}
    THEN FindAny(url, {":"}, 1) ELSE 0
\* for r, the URL after its scheme: the netloc, and what follows it
HasNetloc(r) == StartsWith(r, <<"/","/">>)
NetlocEnd(r) ==
    IF FindAny(r, {"/", "?", "#"}, 3) = 0 THEN Len(r) + 1 ELSE FindAny(r, {"/", "?", "#"}, 3)
Netloc(r) == IF HasNetloc(r) THEN SubSeq(r, 3, NetlocEnd(r) - 1) ELSE <<>>
AfterNetloc(r) == IF HasNetloc(r) THEN SubSeq(r, NetlocEnd(r), Len(r)) ELSE r
\* "Invalid IPv6 URL": a bracket of the netloc without its pair
InvalidNetloc(netloc) == ("[" \in Range(netloc)) # ("]" \in Range(netloc))
UrlParts(r) ==
    [error |-> InvalidNetloc(Netloc(r)),
     netloc |-> Netloc(r),
     path |-> Before(Before(AfterNetloc(r), {"#"}), {"?"}),
     query |-> After(Before(AfterNetloc(r), {"#"}), {"?"})]
\* urlparse(url): netloc, path and query; error when it raises ValueError
urlparse(url) == UrlParts(SubSeq(url, SchemeEnd(url) + 1, Len(url)))
\* the netloc without its userinfo, and without its port
HostInfo(netloc) == SubSeq(netloc, RFind(netloc, "@") + 1, Len(netloc))
\* the host of hostinfo: what its brackets hold, or what precedes the port
HostOf(hostinfo) ==
    IF "[" \in Range(hostinfo) THEN Before(After(hostinfo, {"["}), {"]"})
    ELSE Before(hostinfo, {":"})
\* ParseResult.hostname or "": in lower case
hostname(parsed) == Lower(HostOf(HostInfo(parsed.netloc)))
\* one field of the query string: <<<<name, value>>>>, or <<>> for a blank value or no "="
Field(p) ==
    IF FindAny(p, {"="}, 1) \in {0, Len(p)} THEN <<>>
    ELSE <<<<unquote(ReplaceChar(Before(p, {"="}), "+", " ")),
             unquote(ReplaceChar(After(p, {"="}), "+", " "))>>>>
Fields(pairs) == Flatten([i \in 1..Len(pairs) |-> Field(pairs[i])])
\* parse_qs(query): the fields with a non-blank value, in order, as <<name, value>>
parse_qsl(query) == Fields(Split(query, "&"))
Values(fields) == [i \in 1..Len(fields) |-> fields[i][2]]
\* parse_qs(query).get(name): the values of the fields called name, <<>> for no such field
QsGet(fields, name) == Values(SelectSeq(fields, LAMBDA f : f[1] = name))

(***************************************************************************)
(* The functions of main.py.                                               *)
(***************************************************************************)
HOSTS_PERMITIDOS ==
    \* 'maps.app.goo.gl', 'www.google.com', 'google.com', 'www.google.com.br'
    {<<"m","a","p","s",".","a","p","p",".","g","o","o",".","g","l">>, <<"w","w","w",".","g","o","o","g","l","e",".","c","o","m">>, <<"g","o","o","g","l","e",".","c","o","m">>, <<"w","w","w",".","g","o","o","g","l","e",".","c","o","m",".","b","r">>,
     \* 'google.com.br', 'maps.google.com'
     <<"g","o","o","g","l","e",".","c","o","m",".","b","r">>, <<"m","a","p","s",".","g","o","o","g","l","e",".","c","o","m">>}
PALAVRAS_CHAVE_VIA ==
    \* 'rodovia', 'estrada', 'avenida', 'rua', 'acesso', 'br-', 'br '
    {<<"r","o","d","o","v","i","a">>, <<"e","s","t","r","a","d","a">>, <<"a","v","e","n","i","d","a">>, <<"r","u","a">>, <<"a","c","e","s","s","o">>, <<"b","r","-">>, <<"b","r"," ">>,
     \* 'al{c_cedilla}a', 'linha', 'viaduto', 'trevo', 'marginal', 'av.', 'km '
     <<"a","l","c_cedilla","a">>, <<"l","i","n","h","a">>, <<"v","i","a","d","u","t","o">>, <<"t","r","e","v","o">>, <<"m","a","r","g","i","n","a","l">>, <<"r",".">>, <<"a","v",".">>, <<"k","m"," ">>}
\* '(indispon{i_acute}vel)'
INDISPONIVEL == <<"(","i","n","d","i","s","p","o","n","i_acute","v","e","l",")">>

LowerStripContains(s, chaves) == \E chave \in chaves : Contains(s, chave)
eh_provavel_via(nome) == LowerStripContains(Lower(Strip(nome)), PALAVRAS_CHAVE_VIA)

\* lines 121-126, for s the text of line 120
LimparResto(s) ==
    Strip(RemoveChars(
        CollapseSpaces(
            ReplaceChar(ReplaceChar(ReplaceChar(
                SelectSeq(s, LAMBDA ch : ~IsControl(ch)), "\r", " "), "\n", " "), "\t", " ")),
        {"TRADE", "REG", "COPY"}))
limpar_texto(texto) ==
    IF ~Truthy(texto) THEN texto
    ELSE LimparResto(Strip(NFKC(ReplaceChar(texto, "+", " "))))

\* a faulty variant of HostMatches: the suffix is compared without its leading dot
HostMatches_NoDot(host, permitido) == host = permitido \/ EndsWith(host, permitido)
HostMatches(host, permitido) == host = permitido \/ EndsWith(host, <<".">> \o permitido)
HostAllowed(parsed) ==
    /\ ~parsed.error
    /\ \E permitido \in HOSTS_PERMITIDOS : HostMatches(Lower(hostname(parsed)), permitido)
_host_permitido(url) == HostAllowed(urlparse(url))

\* params.get("q") or params.get("query") or []
Candidatos(params) ==
    \* 'query'
    IF QsGet(params, <<"q">>) # <<>> THEN QsGet(params, <<"q">>) ELSE QsGet(params, <<"q","u","e","r","y">>)
\* the first value of candidatos in which the pair is found, as <<group 1, group 2>>, or <<>>
PrimeiroPar(candidatos) ==
    IF \E i \in 1..Len(candidatos) : SearchPair(candidatos[i]) # <<>>
    THEN SearchPair(candidatos[Min({i \in 1..Len(candidatos) : SearchPair(candidatos[i]) # <<>>})])
    ELSE <<>>
Coordenadas(lt, ln) == [raised |-> FALSE, lat |-> lt, lon |-> ln]
ParFloat(m) == Coordenadas(<<Float(m[1])>>, <<Float(m[2])>>)
\* lines 182-187, for mm the match in the candidates
ParDaQuery(mm) == IF mm # <<>> THEN ParFloat(mm) ELSE Coordenadas(NoneF, NoneF)
\* lines 179-187: urlparse raises, or the query string is searched
ExtrairDaQuery(parsed) ==
    IF parsed.error THEN [raised |-> TRUE, lat |-> NoneF, lon |-> NoneF]
    ELSE ParDaQuery(PrimeiroPar(Candidatos(parse_qsl(parsed.query))))
\* lines 173-176, for the matches of the two patterns
ParDosMarcadores(m_lat, m_lon, url_final) ==
    IF m_lat # <<>> /\ m_lon # <<>> THEN ParFloat(<<m_lat[1], m_lon[1]>>)
    ELSE ExtrairDaQuery(urlparse(url_final))
\* lines 168-170, for the match of the first pattern
ParDaArroba(m, url_final) ==
    IF m # <<>> THEN ParFloat(m)
    ELSE ParDosMarcadores(PADRAO_LAT_3D(url_final), PADRAO_LON_4D(url_final), url_final)
\* a faulty variant of extrair_lat_lon: the !3d/!4d pair is tried before the @ pattern
extrair_lat_lon_MarkersFirst(url_final) ==
    IF PADRAO_LAT_3D(url_final) # <<>> /\ PADRAO_LON_4D(url_final) # <<>>
    THEN ParFloat(<<PADRAO_LAT_3D(url_final)[1], PADRAO_LON_4D(url_final)[1]>>)
    ELSE IF PADRAO_LATLON_ARROBA(url_final) # <<>> THEN ParFloat(PADRAO_LATLON_ARROBA(url_final))
    ELSE ExtrairDaQuery(urlparse(url_final))
\* extrair_lat_lon(url_final): the pair returned, or raised when urlparse raises
extrair_lat_lon(url_final) == ParDaArroba(PADRAO_LATLON_ARROBA(url_final), url_final)

\* lines 202-208: whether the segment after a "place", sanitized, is taken as the name
NomeAceito(nome) == Truthy(nome) /\ ~MatchPair(nome) /\ ~eh_provavel_via(nome)
RECURSIVE NomeDesde_FirstPlaceOnly(_, _)
\* a faulty variant of NomeDesde: the loop returns None at the first rejected candidate
NomeDesde_FirstPlaceOnly(partes, i) ==
    IF i > Len(partes) THEN None
    \* 'place'
    ELSE IF partes[i] = <<"p","l","a","c","e">> /\ i + 1 <= Len(partes)
         THEN IF NomeAceito(limpar_texto(unquote(partes[i + 1])))
              THEN limpar_texto(unquote(partes[i + 1])) ELSE None
         ELSE NomeDesde_FirstPlaceOnly(partes, i + 1)
RECURSIVE NomeDesde(_, _)
\* the for loop of lines 198-209 from index i on
NomeDesde(partes, i) ==
    IF i > Len(partes) THEN None
    \* 'place'
    ELSE IF partes[i] = <<"p","l","a","c","e">> /\ i + 1 <= Len(partes)
              /\ NomeAceito(limpar_texto(unquote(partes[i + 1])))
         THEN limpar_texto(unquote(partes[i + 1]))
         ELSE NomeDesde(partes, i + 1)
NomeDoPath(parsed) ==
    IF parsed.error THEN None
    ELSE NomeDesde(SelectSeq(Split(parsed.path, "/"), LAMBDA p : p # <<>>), 1)
extrair_nome_da_url(url_final) == NomeDoPath(urlparse(url_final))

\* lines 233-238: what geocodificar_reverso returns for a response
\* resp.kind is "exception" (the request or resp.json() raised), "status" (not 200) or "ok"
NomeOuNone(nome) == IF Truthy(nome) THEN nome ELSE None
NomeOsm(resp) ==
    NomeOuNone(limpar_texto(Or(Or(Or(resp.namedetails_name, resp.name), resp.display_name), <<>>)))
JuntarClasseTipo(classe, tipo) ==
    IF Truthy(classe) /\ Truthy(tipo) THEN classe \o <<":">> \o tipo ELSE Or(classe, tipo)
ClasseTipo(resp) == JuntarClasseTipo(Or(resp.category, resp.class), resp.type)
geocodificar_reverso(resp) ==
    IF resp.kind = "ok" THEN <<NomeOsm(resp), ClasseTipo(resp)>> ELSE <<None, None>>

\* lines 280-302: the candidate an element gives, <<>> when it is skipped
\* (e.dist stands for _haversine_metros of the element's coordinates)
TemCoordenadas(e) == IF e.type = "node" THEN e.latlon ELSE e.center
Candidato(e) ==
    IF ~Truthy(e.name) THEN <<>>
    ELSE IF e.highway \/ eh_provavel_via(limpar_texto(e.name)) THEN <<>>
    ELSE IF ~TemCoordenadas(e) THEN <<>>
    ELSE <<<<e.dist, limpar_texto(e.name)>>>>
MenorDistancia(candidatos) == Min({candidatos[i][1] : i \in 1..Len(candidatos)})
PrimeiroA(candidatos, d) == Min({j \in 1..Len(candidatos) : candidatos[j][1] = d})
\* lines 304-308: the name of the first candidate at the least distance (a stable sort)
MaisProximo(candidatos) ==
    IF candidatos = <<>> THEN None
    ELSE candidatos[PrimeiroA(candidatos, MenorDistancia(candidatos))][2]
Candidatos_poi(elements) == Flatten([i \in 1..Len(elements) |-> Candidato(elements[i])])
buscar_poi_proximo(resp) ==
    IF resp.kind # "ok" THEN None ELSE MaisProximo(Candidatos_poi(resp.elements))

\* a faulty variant of EhHighway: only the bare class "highway" counts
\* 'highway'
EhHighway_Exact(classe_tipo) == classe_tipo = <<"h","i","g","h","w","a","y">>
\* classe_tipo and isinstance(classe_tipo, str) and classe_tipo.startswith("highway")
\* 'highway'
EhHighway(classe_tipo) == Truthy(classe_tipo) /\ StartsWith(classe_tipo, <<"h","i","g","h","w","a","y">>)
NomeUrlUsavel(nome_url) == Truthy(nome_url) /\ ~eh_provavel_via(nome_url)
NomeOsmUsavel(nome_osm) == Truthy(nome_osm) /\ ~eh_provavel_via(nome_osm)

(***************************************************************************)
(* The inputs of the model: links, the final URLs the network may answer   *)
(* with, and the responses of the two services.                            *)
(***************************************************************************)
MaxLinks == 2
MaxElements == 2

SeqsUpTo(S, n) == UNION {[1..k -> S] : k \in 0..n}

\* 'https://www.google.com/maps'
GOOGLE == <<"h","t","t","p","s",":","/","/","w","w","w",".","g","o","o","g","l","e",".","c","o","m","/","m","a","p","s">>
PlaceParts ==
    \* '/place', '/place/Estadio%20Legal', '/place/Rua+A', '/place/-23.55,-46.63'
    {<<>>, <<"/","p","l","a","c","e">>, <<"/","p","l","a","c","e","/","E","s","t","a","d","i","o","%","2","0","L","e","g","a","l">>, <<"/","p","l","a","c","e","/","R","u","a","+","A">>, <<"/","p","l","a","c","e","/","-","2","3",".","5","5",",","-","4","6",".","6","3">>,
     \* '/place/%20', '/place/Rua+A/place/Padaria+Central'
     <<"/","p","l","a","c","e","/","%","2","0">>, <<"/","p","l","a","c","e","/","R","u","a","+","A","/","p","l","a","c","e","/","P","a","d","a","r","i","a","+","C","e","n","t","r","a","l">>}
\* '/@1.5,-2.25,15z'
AtParts == {<<>>, <<"/","@","1",".","5",",","-","2",".","2","5",",","1","5","z">>}
\* '/data=!3d3', '/data=!4d-4.5!3d3'
DataParts == {<<>>, <<"/","d","a","t","a","=","!","3","d","3">>, <<"/","d","a","t","a","=","!","4","d","-","4",".","5","!","3","d","3">>}
\* '?q=5,6', '?query=7,8', '?q=Foo&query=7,8', '?q=&q=5%2C+6.5&query=7,8'
QueryParts == {<<>>, <<"?","q","=","5",",","6">>, <<"?","q","u","e","r","y","=","7",",","8">>, <<"?","q","=","F","o","o","&","q","u","e","r","y","=","7",",","8">>, <<"?","q","=","&","q","=","5","%","2","C","+","6",".","5","&","q","u","e","r","y","=","7",",","8">>}
MapsURLs == {GOOGLE \o p \o a \o d \o q : p \in PlaceParts, a \in AtParts, d \in DataParts, q \in QueryParts}
\* one destination, reached under hosts inside and outside the whitelist
HostParts ==
    \* 'maps.google.com', 'WWW.Google.com.br', 'sub.maps.app.goo.gl', 'google.com:443'
    {<<"m","a","p","s",".","g","o","o","g","l","e",".","c","o","m">>, <<"W","W","W",".","G","o","o","g","l","e",".","c","o","m",".","b","r">>, <<"s","u","b",".","m","a","p","s",".","a","p","p",".","g","o","o",".","g","l">>, <<"g","o","o","g","l","e",".","c","o","m",":","4","4","3">>,
     \* 'evil.com', 'evilgoogle.com', 'www.google.com.evil.com', 'www.google.com@evil.com'
     <<"e","v","i","l",".","c","o","m">>, <<"e","v","i","l","g","o","o","g","l","e",".","c","o","m">>, <<"w","w","w",".","g","o","o","g","l","e",".","c","o","m",".","e","v","i","l",".","c","o","m">>, <<"w","w","w",".","g","o","o","g","l","e",".","c","o","m","@","e","v","i","l",".","c","o","m">>,
     \* '[google.com'
     <<"[","g","o","o","g","l","e",".","c","o","m">>}
\* 'https://', '/maps/place/Bar+Bom/@8,9', 'intent:@8,9'
HostURLs == {<<"h","t","t","p","s",":","/","/">> \o h \o <<"/","m","a","p","s","/","p","l","a","c","e","/","B","a","r","+","B","o","m","/","@","8",",","9">> : h \in HostParts} \cup {<<"i","n","t","e","n","t",":","@","8",",","9">>}

LinkInputs ==
    \* 'https://maps.app.goo.gl/abc', 'https://evil.com/maps/place/Bar+Bom/@8,9'
    {<<"h","t","t","p","s",":","/","/","m","a","p","s",".","a","p","p",".","g","o","o",".","g","l","/","a","b","c">>, <<"h","t","t","p","s",":","/","/","e","v","i","l",".","c","o","m","/","m","a","p","s","/","p","l","a","c","e","/","B","a","r","+","B","o","m","/","@","8",",","9">>,
     \* 'https://[maps.google.com/?q=5,6'
     <<"h","t","t","p","s",":","/","/","[","m","a","p","s",".","g","o","o","g","l","e",".","c","o","m","/","?","q","=","5",",","6">>}
FinalURLs == MapsURLs \cup HostURLs \cup LinkInputs

GeoResponses ==
    {[kind |-> "exception"], [kind |-> "status"]} \cup
    \* 'Padaria Central'
    [kind : {"ok"}, namedetails_name : {None, <<"P","a","d","a","r","i","a"," ","C","e","n","t","r","a","l">>},
     \* 'Rua das Flores'
     name : {None, <<" ">>, <<"R","u","a"," ","d","a","s"," ","F","l","o","r","e","s">>},
     \* 'S{i_acute}tio  Bom{REG}', 'Av. Brasil, 100'
     display_name : {None, <<"S","i_acute","t","i","o"," "," ","B","o","m","REG">>, <<"A","v","."," ","B","r","a","s","i","l",","," ","1","0","0">>},
     \* 'highway', 'amenity', 'highway'
     category : {None, <<"h","i","g","h","w","a","y">>, <<"a","m","e","n","i","t","y">>}, class : {None, <<"h","i","g","h","w","a","y">>},
     \* 'residential'
     type : {None, <<"r","e","s","i","d","e","n","t","i","a","l">>}]
Elements ==
    {[name |-> None, highway |-> FALSE, type |-> "node", latlon |-> TRUE, center |-> FALSE, dist |-> 1],
     [name |-> <<" ">>, highway |-> FALSE, type |-> "node", latlon |-> TRUE, center |-> FALSE, dist |-> 1],
     \* 'Padaria Central'
     [name |-> <<"P","a","d","a","r","i","a"," ","C","e","n","t","r","a","l">>, highway |-> FALSE, type |-> "node", latlon |-> TRUE, center |-> FALSE, dist |-> 2],
     \* 'Mercado+Bom'
     [name |-> <<"M","e","r","c","a","d","o","+","B","o","m">>, highway |-> FALSE, type |-> "way", latlon |-> FALSE, center |-> TRUE, dist |-> 2],
     \* 'Mercado Sul'
     [name |-> <<"M","e","r","c","a","d","o"," ","S","u","l">>, highway |-> FALSE, type |-> "way", latlon |-> TRUE, center |-> FALSE, dist |-> 1],
     \* 'Travessa Um'
     [name |-> <<"T","r","a","v","e","s","s","a"," ","U","m">>, highway |-> TRUE, type |-> "way", latlon |-> FALSE, center |-> TRUE, dist |-> 1],
     \* 'Rua das Flores'
     [name |-> <<"R","u","a"," ","d","a","s"," ","F","l","o","r","e","s">>, highway |-> FALSE, type |-> "node", latlon |-> TRUE, center |-> FALSE, dist |-> 1]}
PoiResponses ==
    {[kind |-> "exception", elements |-> <<>>], [kind |-> "status", elements |-> <<>>]} \cup
    [kind : {"ok"}, elements : SeqsUpTo(Elements, MaxElements)]

\* what the two services' clients return on these responses
GeoReturns == {geocodificar_reverso(resp) : resp \in GeoResponses}
PoiReturns == {buscar_poi_proximo(resp) : resp \in PoiResponses}

\* the smaller inputs of the batch run
BatchLinks == LinkInputs
BatchURLs ==
    \* 'https://www.google.com/maps/place/Estadio%20Legal/@-23.55,-46.63,15z'
    {<<"h","t","t","p","s",":","/","/","w","w","w",".","g","o","o","g","l","e",".","c","o","m","/","m","a","p","s","/","p","l","a","c","e","/","E","s","t","a","d","i","o","%","2","0","L","e","g","a","l","/","@","-","2","3",".","5","5",",","-","4","6",".","6","3",",","1","5","z">>,
     \* 'https://www.google.com/maps?q=5,6', 'https://evil.com/maps/@8,9'
     <<"h","t","t","p","s",":","/","/","w","w","w",".","g","o","o","g","l","e",".","c","o","m","/","m","a","p","s","?","q","=","5",",","6">>, <<"h","t","t","p","s",":","/","/","e","v","i","l",".","c","o","m","/","m","a","p","s","/","@","8",",","9">>}
BatchGeo ==
    {[kind |-> "exception"],
     \* 'Rua das Flores'
     [kind |-> "ok", namedetails_name |-> <<"R","u","a"," ","d","a","s"," ","F","l","o","r","e","s">>, name |-> None, display_name |-> None,
      \* 'highway', 'residential'
      category |-> <<"h","i","g","h","w","a","y">>, class |-> None, type |-> <<"r","e","s","i","d","e","n","t","i","a","l">>]}
BatchPoi ==
    {[kind |-> "status", elements |-> <<>>],
     \* 'Padaria Central'
     [kind |-> "ok", elements |-> <<[name |-> <<"P","a","d","a","r","i","a"," ","C","e","n","t","r","a","l">>, highway |-> FALSE, type |-> "node",
                                    latlon |-> TRUE, center |-> FALSE, dist |-> 2]>>]}

BatchGeoReturns == {geocodificar_reverso(resp) : resp \in BatchGeo}
BatchPoiReturns == {buscar_poi_proximo(resp) : resp \in BatchPoi}

(***************************************************************************)
(* The state: the variables of main(), the call stack, the locals of       *)
(* processar_link, seguir_redirecionamento_seguro and resolver_nome_final, *)
(* and two history variables: calls (the external services called by the   *)
(* current resolver_nome_final) and raised (an exception reached the       *)
(* except clause of the current processar_link).                           *)
(***************************************************************************)
VARIABLES links, idx, vistos, resultados, links_falhos,
          frames, pc,
          link, resp_url, url_final, lat, lon, nome_url,
          nome_osm, classe_tipo, poi, nome_final, resultado,
          calls, raised

mainVars == <<links, idx, vistos, resultados, links_falhos>>
linkVars == <<link, resp_url, url_final, lat, lon, nome_url>>
resolverVars == <<nome_osm, classe_tipo, poi>>
vars == <<links, idx, vistos, resultados, links_falhos, frames, pc,
          link, resp_url, url_final, lat, lon, nome_url,
          nome_osm, classe_tipo, poi, nome_final, resultado, calls, raised>>

Resultado(lugar, lt, ln, lk) == [lugar |-> lugar, lat |-> lt, lon |-> ln, link |-> lk]

NoLocals ==
    /\ link = None /\ resp_url = None /\ url_final = None
    /\ lat = NoneF /\ lon = NoneF /\ nome_url = None
    /\ nome_osm = None /\ classe_tipo = None /\ poi = None
    /\ nome_final = <<>> /\ resultado = <<>>
    /\ calls = <<>> /\ raised = FALSE

\* the locals of the callee are gone when main goes on to the next link
ForgetLocals ==
    /\ link' = None /\ resp_url' = None /\ url_final' = None
    /\ lat' = NoneF /\ lon' = NoneF /\ nome_url' = None
    /\ nome_osm' = None /\ classe_tipo' = None /\ poi' = None
    /\ nome_final' = <<>> /\ resultado' = <<>>
    /\ calls' = <<>> /\ raised' = FALSE

\* main() after carregar_links: any list of links, nothing processed yet
Init ==
    /\ links \in SeqsUpTo(BatchLinks, MaxLinks)
    /\ idx = 1 /\ vistos = {} /\ resultados = <<>> /\ links_falhos = <<>>
    /\ frames = <<"main">> /\ pc = "loop"
    /\ NoLocals

\* a call of processar_link(link), or of resolver_nome_final(lat, lon, nome_url), on its own
InitUnit ==
    /\ links = <<>> /\ idx = 1 /\ vistos = {} /\ resultados = <<>> /\ links_falhos = <<>>
    /\ resp_url = None /\ url_final = None
    /\ nome_osm = None /\ classe_tipo = None /\ poi = None
    /\ nome_final = <<>> /\ resultado = <<>> /\ calls = <<>> /\ raised = FALSE
    /\ \/ /\ frames = <<"processar_link">> /\ pc = "head"
          /\ link \in LinkInputs
          /\ lat = NoneF /\ lon = NoneF /\ nome_url = None
       \/ /\ frames = <<"resolver_nome_final">> /\ pc = "resolve"
          /\ link = None
          /\ lat \in {NoneF, <<150>>} /\ lon \in {NoneF, <<-225>>}
          \* 'Estadio Legal', 'Rua A', 'Bar Bom'
          /\ nome_url \in {None, <<>>, <<" ">>, <<"E","s","t","a","d","i","o"," ","L","e","g","a","l">>, <<"R","u","a"," ","A">>, <<"B","a","r"," ","B","o","m">>}

Top == IF frames = <<>> THEN "none" ELSE frames[Len(frames)]
Pop(fs) == SubSeq(fs, 1, Len(fs) - 1)
\* where control goes when the frame on top of fs returns
ResumeAt(fs) == IF Pop(fs) = <<>> THEN "done" ELSE "collect"

\* line 441-444, a link seen before: continue
MainSkip ==
    /\ pc = "loop" /\ idx <= Len(links) /\ links[idx] \in vistos
    /\ idx' = idx + 1
    /\ UNCHANGED <<links, vistos, resultados, links_falhos, frames, pc, linkVars, resolverVars,
                   nome_final, resultado, calls, raised>>

\* a faulty variant of MainCall: the link is not added to vistos
MainCall_NoVistos ==
    /\ pc = "loop" /\ idx <= Len(links) /\ links[idx] \notin vistos
    /\ frames' = Append(frames, "processar_link") /\ pc' = "head"
    /\ link' = links[idx]
    /\ UNCHANGED <<links, idx, vistos, resultados, links_falhos, resp_url, url_final, lat, lon,
                   nome_url, resolverVars, nome_final, resultado, calls, raised>>

\* lines 441-446, a new link: vistos.add(link) and the call of processar_link
MainCall ==
    /\ pc = "loop" /\ idx <= Len(links) /\ links[idx] \notin vistos
    /\ vistos' = vistos \cup {links[idx]}
    /\ frames' = Append(frames, "processar_link") /\ pc' = "head"
    /\ link' = links[idx]
    /\ UNCHANGED <<links, idx, resultados, links_falhos, resp_url, url_final, lat, lon, nome_url,
                   resolverVars, nome_final, resultado, calls, raised>>

\* line 449
Ok(r) == r.lat # NoneF /\ r.lon # NoneF

\* lines 447-459: the result is appended, and the link logged when it has no coordinates
MainCollect ==
    /\ pc = "collect" /\ Top = "main"
    /\ resultados' = Append(resultados, resultado[1])
    /\ links_falhos' = IF Ok(resultado[1]) THEN links_falhos
                       ELSE Append(links_falhos, resultado[1].link)
    /\ idx' = idx + 1 /\ pc' = "loop"
    /\ ForgetLocals
    /\ UNCHANGED <<links, vistos, frames>>

\* lines 461-468: the loop is over, the outputs are written
MainFinish ==
    /\ pc = "loop" /\ idx > Len(links)
    /\ pc' = "done" /\ frames' = <<>>
    /\ UNCHANGED <<mainVars, linkVars, resolverVars, nome_final, resultado, calls, raised>>

\* lines 149 and 155: the URL returned for a response whose final URL is u
UrlSeguro(u, url_inicial) == IF _host_permitido(u) THEN u ELSE url_inicial

\* lines 146-150: the HEAD request answers with a final URL, or raises
HeadRequest(urls) ==
    /\ pc = "head" /\ Top = "processar_link"
    /\ \/ \E u \in urls :
            /\ resp_url' = u /\ url_final' = UrlSeguro(u, link)
            /\ pc' = "extract"
       \/ /\ pc' = "get"
          /\ UNCHANGED <<resp_url, url_final>>
    /\ UNCHANGED <<mainVars, frames, link, lat, lon, nome_url, resolverVars, nome_final, resultado,
                   calls, raised>>

\* lines 152-157: the GET fallback answers with a final URL, or raises
GetRequest(urls) ==
    /\ pc = "get" /\ Top = "processar_link"
    /\ \/ \E u \in urls : resp_url' = u /\ url_final' = UrlSeguro(u, link)
       \/ resp_url' = None /\ url_final' = link
    /\ pc' = "extract"
    /\ UNCHANGED <<mainVars, frames, link, lat, lon, nome_url, resolverVars, nome_final, resultado,
                   calls, raised>>

\* a faulty variant of Extract: without the except clause the exception leaves
\* processar_link and no Resultado is built
Extract_NoExcept ==
    /\ pc = "extract" /\ Top = "processar_link"
    /\ \E r \in {extrair_lat_lon(url_final)} :
          IF r.raised
          THEN /\ raised' = TRUE
               /\ frames' = Pop(frames) /\ pc' = ResumeAt(frames)
               /\ UNCHANGED <<lat, lon, nome_url, resultado>>
          ELSE /\ lat' = r.lat /\ lon' = r.lon
               /\ nome_url' = extrair_nome_da_url(url_final)
               /\ frames' = Append(frames, "resolver_nome_final") /\ pc' = "resolve"
               /\ UNCHANGED <<raised, resultado>>
    /\ UNCHANGED <<mainVars, link, resp_url, url_final, resolverVars, nome_final, calls>>

\* lines 419-421 and 423-424: the two extractions and the call of resolver_nome_final,
\* or the except clause when extrair_lat_lon raises
Extract ==
    /\ pc = "extract" /\ Top = "processar_link"
    /\ \E r \in {extrair_lat_lon(url_final)} :
          IF r.raised
          THEN /\ raised' = TRUE
               /\ resultado' = <<Resultado(INDISPONIVEL, NoneF, NoneF, link)>>
               /\ frames' = Pop(frames) /\ pc' = ResumeAt(frames)
               /\ UNCHANGED <<lat, lon, nome_url>>
          ELSE /\ lat' = r.lat /\ lon' = r.lon
               /\ nome_url' = extrair_nome_da_url(url_final)
               /\ frames' = Append(frames, "resolver_nome_final") /\ pc' = "resolve"
               /\ UNCHANGED <<raised, resultado>>
    /\ UNCHANGED <<mainVars, link, resp_url, url_final, resolverVars, nome_final, calls>>

\* resolver_nome_final returns nome; under processar_link, line 422 builds the Resultado
Return(nome) ==
    /\ nome_final' = <<nome>>
    /\ IF Len(frames) >= 2 /\ frames[Len(frames) - 1] = "processar_link"
       THEN /\ resultado' = <<Resultado(nome, lat, lon, link)>>
            /\ frames' = Pop(Pop(frames)) /\ pc' = ResumeAt(Pop(frames))
       ELSE /\ frames' = Pop(frames) /\ pc' = "done"
            /\ UNCHANGED resultado

\* a faulty variant of Resolve: the coordinates are tested before the URL name
Resolve_CoordinatesFirst ==
    /\ pc = "resolve" /\ Top = "resolver_nome_final"
    /\ IF lat = NoneF \/ lon = NoneF THEN Return(INDISPONIVEL)
       ELSE IF NomeUrlUsavel(nome_url) THEN Return(nome_url)
       ELSE /\ pc' = "geocode"
            /\ UNCHANGED <<frames, nome_final, resultado>>
    /\ UNCHANGED <<mainVars, linkVars, resolverVars, calls, raised>>

\* lines 324-328: the URL name, or the sentinel without coordinates, before any call
Resolve ==
    /\ pc = "resolve" /\ Top = "resolver_nome_final"
    /\ IF NomeUrlUsavel(nome_url) THEN Return(nome_url)
       ELSE IF lat = NoneF \/ lon = NoneF THEN Return(INDISPONIVEL)
       ELSE /\ pc' = "geocode"
            /\ UNCHANGED <<frames, nome_final, resultado>>
    /\ UNCHANGED <<mainVars, linkVars, resolverVars, calls, raised>>

\* a faulty variant of Geocode: a call that gave no name is made again
Geocode_Retry(returns) ==
    /\ pc = "geocode" /\ Top = "resolver_nome_final"
    /\ \E r \in returns :
        /\ nome_osm' = r[1] /\ classe_tipo' = r[2]
        /\ IF NomeOsmUsavel(r[1]) /\ ~EhHighway(r[2]) THEN Return(r[1])
           ELSE /\ pc' = IF r[1] = None /\ Len(calls) < 2 THEN "geocode" ELSE "poi"
                /\ UNCHANGED <<frames, nome_final, resultado>>
    /\ calls' = Append(calls, "geocodificar_reverso")
    /\ UNCHANGED <<mainVars, linkVars, poi, raised>>

\* lines 330-338: the reverse geocoder is called and returns r, one of `returns';
\* a usable name that is no highway is returned
Geocode(returns) ==
    /\ pc = "geocode" /\ Top = "resolver_nome_final"
    /\ \E r \in returns :
        /\ nome_osm' = r[1] /\ classe_tipo' = r[2]
        /\ IF NomeOsmUsavel(r[1]) /\ ~EhHighway(r[2]) THEN Return(r[1])
           ELSE /\ pc' = "poi"
                /\ UNCHANGED <<frames, nome_final, resultado>>
    /\ calls' = Append(calls, "geocodificar_reverso")
    /\ UNCHANGED <<mainVars, linkVars, poi, raised>>

\* a faulty variant of NomeAposPoi: the POI name is tested against None, not for truth
NomeAposPoi_NotNone(osm, p) ==
    IF p # None THEN p
    ELSE IF NomeOsmUsavel(osm) THEN osm
    ELSE Or(osm, INDISPONIVEL)

\* lines 336-337 and 341-346: the name returned once buscar_poi_proximo has answered p
NomeAposPoi(osm, p) ==
    IF NomeOsmUsavel(osm) THEN Or(p, osm)
    ELSE IF Truthy(p) THEN p
    ELSE Or(osm, INDISPONIVEL)

\* lines 336-337 and 341-346: the nearby-POI search is called and returns p, one of
\* `returns'; the name is returned
Poi(returns) ==
    /\ pc = "poi" /\ Top = "resolver_nome_final"
    /\ \E p \in returns :
        /\ poi' = p
        /\ Return(NomeAposPoi(nome_osm, p))
    /\ calls' = Append(calls, "buscar_poi_proximo")
    /\ UNCHANGED <<mainVars, linkVars, nome_osm, classe_tipo, raised>>

Next ==
    \/ MainSkip \/ MainCall \/ MainCollect \/ MainFinish
    \/ HeadRequest(BatchURLs) \/ GetRequest(BatchURLs) \/ Extract
    \/ Resolve \/ Geocode(BatchGeoReturns) \/ Poi(BatchPoiReturns)
Spec == Init /\ [][Next]_vars

NextUnit ==
    \/ HeadRequest(FinalURLs) \/ GetRequest(FinalURLs) \/ Extract
    \/ Resolve \/ Geocode(GeoReturns) \/ Poi(PoiReturns)
UnitSpec == InitUnit /\ [][NextUnit]_vars


(***************************************************************************)
(* Properties.  Spec is the batch run of main(); UnitSpec is a call of     *)
(* processar_link, or of resolver_nome_final, on its own.                  *)
(***************************************************************************)
GEO == "geocodificar_reverso"
POI == "buscar_poi_proximo"
\* nome_url is non-empty and not flagged by the road-name heuristic
UsableUrlName == nome_url # None /\ nome_url # <<>> /\ ~eh_provavel_via(nome_url)
\* processar_link has extracted from url_final and called resolver_nome_final
Extracted == pc = "resolve" /\ link # None

\* C1: a call of resolver_nome_final with a URL name that is non-empty and not road-like
\* returns exactly that name, whatever the coordinates, and calls neither
\* geocodificar_reverso nor buscar_poi_proximo.
C1_UrlNameWins ==
    UsableUrlName =>
        /\ calls = <<>>
        /\ pc \notin {"geocode", "poi"}
        /\ pc = "done" => nome_final = <<nome_url>>
C1_Witness ==
    /\ pc = "done" /\ UsableUrlName /\ lat # NoneF /\ lon # NoneF
    /\ nome_final = <<nome_url>> /\ calls = <<>>

\* the host of u equals a whitelisted host or is a subdomain of one
Whitelisted(u) ==
    LET parsed == urlparse(u)
        h == hostname(parsed)
    IN /\ ~parsed.error
       /\ \E p \in HOSTS_PERMITIDOS :
            \/ h = p
            \/ Len(h) > Len(p) /\ SubSeq(h, Len(h) - Len(p), Len(h)) = <<".">> \o p

\* C2: whatever the HEAD request and the GET fallback answer, the URL that
\* seguir_redirecionamento_seguro returns is the original link or a final URL whose host is
\* whitelisted; a final URL whose host is not whitelisted gives the original link.
C2_RedirectStaysInWhitelist ==
    pc = "extract" =>
        /\ url_final = link \/ Whitelisted(url_final)
        /\ (resp_url # None /\ ~Whitelisted(resp_url)) => url_final = link
C2_Witness ==
    /\ pc = "extract" /\ resp_url # None /\ resp_url # link /\ ~Whitelisted(resp_url)
    /\ PADRAO_LATLON_ARROBA(resp_url) # <<>>
    /\ url_final = link

\* C3: in every Resultado of processar_link the place name is neither empty nor made of
\* whitespace only, and it is the sentinel when neither the URL, nor the reverse geocoder,
\* nor the POI search gave a name.
C3_PlaceNameNeverBlank ==
    resultado # <<>> =>
        /\ resultado[1].lugar # None
        /\ Strip(resultado[1].lugar) # <<>>
        /\ (~UsableUrlName /\ ~Truthy(nome_osm) /\ ~Truthy(poi)) => resultado[1].lugar = INDISPONIVEL
C3_Witness ==
    /\ resultado # <<>> /\ poi = <<>> /\ nome_osm = None /\ calls = <<GEO, POI>>
    /\ resultado[1].lugar = INDISPONIVEL

\* the category-type tag names a highway classification
\* 'highway', 'highway:'
HighwayTag(ct) == ct = <<"h","i","g","h","w","a","y">> \/ StartsWith(ct, <<"h","i","g","h","w","a","y",":">>)

\* C4: with coordinates, without a usable URL name, and with a geocoded name that is not
\* road-like: under a highway tag the POI search is consulted and the result is the POI
\* name if one is found, else the geocoded name; under another tag the geocoded name is
\* returned without a POI search.
C4_HighwayPrefersPoi ==
    (/\ pc = "done" /\ lat # NoneF /\ lon # NoneF /\ ~UsableUrlName
     /\ Truthy(nome_osm) /\ ~eh_provavel_via(nome_osm)) =>
        IF HighwayTag(classe_tipo)
        THEN calls = <<GEO, POI>> /\ nome_final = <<IF Truthy(poi) THEN poi ELSE nome_osm>>
        ELSE calls = <<GEO>> /\ nome_final = <<nome_osm>>
C4_Witness ==
    /\ pc = "done" /\ ~UsableUrlName
    \* 'Rua das Flores', 'Padaria Central'
    /\ nome_osm = <<"R","u","a"," ","d","a","s"," ","F","l","o","r","e","s">> \/ nome_osm = <<"P","a","d","a","r","i","a"," ","C","e","n","t","r","a","l">>
    /\ ~eh_provavel_via(nome_osm)
    \* 'highway:residential'
    /\ classe_tipo = <<"h","i","g","h","w","a","y",":","r","e","s","i","d","e","n","t","i","a","l">>
    /\ poi # None /\ poi # <<>> /\ poi # nome_osm
    /\ nome_final = <<poi>>

\* the pair of floats two matched numbers stand for
FloatPair(a, b) == <<<<Float(a)>>, <<Float(b)>>>>
\* the lat,lon pairs found in the values of the q and query parameters of url
QueryPairs(url) ==
    LET fields == parse_qsl(urlparse(url).query)
    IN {SearchPair(fields[i][2]) :
            \* 'query'
            i \in {j \in 1..Len(fields) : /\ fields[j][1] \in {<<"q">>, <<"q","u","e","r","y">>}
                                          /\ SearchPair(fields[j][2]) # <<>>}}

\* C5: extrair_lat_lon returns the pair of the first of its three patterns that matches:
\* the @ pattern, else the !3d/!4d pair, else a q= or query= parameter (or nothing).
C5_PatternPriority ==
    Extracted =>
        LET m == PADRAO_LATLON_ARROBA(url_final)
            m_lat == PADRAO_LAT_3D(url_final)
            m_lon == PADRAO_LON_4D(url_final)
        IN IF m # <<>> THEN <<lat, lon>> = FloatPair(m[1], m[2])
           ELSE IF m_lat # <<>> /\ m_lon # <<>> THEN <<lat, lon>> = FloatPair(m_lat[1], m_lon[1])
           ELSE \/ lat = NoneF /\ lon = NoneF
                \/ \E pr \in QueryPairs(url_final) : <<lat, lon>> = FloatPair(pr[1], pr[2])
C5_Witness ==
    /\ Extracted
    \* '1.5', '-2.25'
    /\ PADRAO_LATLON_ARROBA(url_final) = <<<<"1",".","5">>, <<"-","2",".","2","5">>>>
    \* '-4.5'
    /\ PADRAO_LAT_3D(url_final) = <<<<"3">>>> /\ PADRAO_LON_4D(url_final) = <<<<"-","4",".","5">>>>
    /\ QueryPairs(url_final) = {<<<<"5">>, <<"6">>>>}
    /\ lat = <<150>> /\ lon = <<-225>>

\* C6: processar_link always returns a Resultado; when a step raises, it is the sentinel
\* name, no latitude, no longitude and the original link; and in every Resultado the
\* latitude and the longitude are both present or both absent.
C6_NeverRaises ==
    /\ raised => resultado = <<[lugar |-> INDISPONIVEL, lat |-> NoneF, lon |-> NoneF, link |-> link]>>
    /\ resultado # <<>> =>
        /\ (resultado[1].lat = NoneF) <=> (resultado[1].lon = NoneF)
        /\ resultado[1].link = link
    /\ (link # None /\ frames = <<>>) => resultado # <<>>
C6_Witness ==
    /\ raised /\ frames = <<>> /\ link # None
    /\ resultado # <<>> /\ resultado[1].lugar = INDISPONIVEL

\* the elements of s without the later occurrences of an element, in the order of s
FirstOccurrences(s) ==
    LET keep == {i \in 1..Len(s) : \A j \in 1..(i - 1) : s[j] # s[i]}
    IN [k \in 1..Cardinality(keep) |->
            s[CHOOSE i \in keep : Cardinality({j \in keep : j <= i}) = k]]

\* C7: the main loop gives one Resultado per distinct link, in the order of the first
\* occurrences; a link equal to an earlier one is not processed and gives neither a
\* Resultado nor an entry of links_falhos.
C7_OneResultPerDistinctLink ==
    /\ [i \in 1..Len(resultados) |-> resultados[i].link] = FirstOccurrences(SubSeq(links, 1, idx - 1))
    /\ LET failed == SelectSeq(resultados, LAMBDA r : r.lat = NoneF \/ r.lon = NoneF)
       IN links_falhos = [i \in 1..Len(failed) |-> failed[i].link]
    /\ (frames # <<>> /\ Top # "main") =>
            link = links[idx] /\ \A j \in 1..(idx - 1) : links[j] # link
C7_Witness ==
    /\ pc = "done" /\ Len(links) = 2 /\ links[1] = links[2]
    /\ Len(resultados) = 1 /\ Len(links_falhos) = 1

\* the non-empty segments of the path of url
Partes(url) == SelectSeq(Split(urlparse(url).path, "/"), LAMBDA p : p # <<>>)
\* the name the segment after index i gives
NomeApos(partes, i) == limpar_texto(unquote(partes[i + 1]))
\* the name is not empty, is no bare lat,lon and is not road-like
Acceptable(nome) == nome # None /\ nome # <<>> /\ ~MatchPair(nome) /\ ~eh_provavel_via(nome)

\* C8, as first stated: only the first "place" segment is considered, and the extractor
\* returns None when the segment after it is rejected.
C8_OnlyFirstPlace ==
    Extracted =>
        LET partes == Partes(url_final)
            \* 'place'
            places == {i \in 1..(Len(partes) - 1) : partes[i] = <<"p","l","a","c","e">>}
        IN (places # {} /\ ~Acceptable(NomeApos(partes, Min(places)))) => nome_url = None

\* C8: extrair_nome_da_url returns the sanitized segment after the first "place" segment
\* whose following segment is acceptable, and None when there is no such segment.
C8_FirstAcceptablePlace ==
    Extracted =>
        LET partes == Partes(url_final)
            ok == {i \in 1..(Len(partes) - 1) :
                       \* 'place'
                       partes[i] = <<"p","l","a","c","e">> /\ Acceptable(NomeApos(partes, i))}
        IN nome_url = IF ok = {} THEN None ELSE NomeApos(partes, Min(ok))
C8_Witness ==
    /\ Extracted
    /\ Len(Partes(url_final)) >= 5
    \* 'place', 'Rua+A'
    /\ Partes(url_final)[2] = <<"p","l","a","c","e">> /\ Partes(url_final)[3] = <<"R","u","a","+","A">>
    \* 'place'
    /\ Partes(url_final)[4] = <<"p","l","a","c","e">>
    \* 'Padaria Central'
    /\ nome_url = <<"P","a","d","a","r","i","a"," ","C","e","n","t","r","a","l">>

\* C9: when neither the @ pattern nor the !3d/!4d pair matches and a q or a query
\* parameter holds a lat,lon, extrair_lat_lon returns such a pair.
C9_QueryParameterUsed ==
    (/\ Extracted
     /\ PADRAO_LATLON_ARROBA(url_final) = <<>>
     /\ PADRAO_LAT_3D(url_final) = <<>> \/ PADRAO_LON_4D(url_final) = <<>>
     /\ QueryPairs(url_final) # {}) =>
        \E pr \in QueryPairs(url_final) : <<lat, lon>> = FloatPair(pr[1], pr[2])

\* C10: the external calls of resolver_nome_final are none, the reverse geocoder alone, or
\* the reverse geocoder then the POI search, each at most once; none is made without both
\* coordinates.
C10_CallSequence ==
    /\ calls \in {<<>>, <<GEO>>, <<GEO, POI>>}
    /\ (lat = NoneF \/ lon = NoneF) => calls = <<>>
C10_Witness ==
    /\ pc = "done" /\ calls = <<GEO, POI>>
    /\ nome_osm = None /\ poi = None /\ nome_final = <<INDISPONIVEL>>
=============================================================================
